---- MODULE Spec2Model ----
(***************************************************************************)
(* A model of src/site/main.ts: a Quill editor kept in sync with a         *)
(* Firebase Realtime Database list of characters ("text/"), each with a    *)
(* CRDT position.  Several replicas run the same program against one       *)
(* database.                                                               *)
(*                                                                         *)
(* Indices are 0-based as in the source; TLA+ sequences are 1-based, so    *)
(* element i of a JavaScript array a is a[i + 1] here.                     *)
(***************************************************************************)
EXTENDS Integers, Sequences, FiniteSets, TLC

\* ------------------------------------------------------------------ bounds

\* Keys the database may ever hold (the initial ones and those push() makes).
MaxKeys == 4
\* Keys that exist when the users of a run stop typing.
MaxTyped == 3
\* Positions are points of the open interval (0, Top).
Top == 16
\* Longest string a user inserts in one editor operation.
MaxInsert == 2
\* Longest run a user deletes or formats in one editor operation.
MaxRun == 2
\* Format operations the users make in one run of the system.
MaxFormats == 2
\* Operations in a change handed to getRelevantDeltaOperations on its own.
MaxOps == 3

\* --------------------------------------------------------------- the data

\* The replicas with a user at the editor, and one that only displays.
Replicas == {"r1", "r2"}
Readers == {"r3"}
Keys == 1 .. MaxKeys
\* previousChildName === null
NoKey == 0
\* A JavaScript undefined field (char, attrs[a], op.attributes[a]).
Undef == "undefined"
\* A JavaScript null attribute value (Quill's "remove this format").
Null == "null"
\* pos?: undefined.  The query orders children without pos first.
NoPos == 0
\* A Quill embed: an insert whose typeof is not "string".
Embed == "img"
AttrNames == {"bold", "color"}
AttrValue == [bold |-> "true", color |-> "red"]

\* attrs?: undefined (RTDB stores {} as undefined).
NoAttrs == [a \in AttrNames |-> Undef]
\* A child that does not exist: every field undefined.
Absent == [char |-> Undef, pos |-> NoPos, attrs |-> NoAttrs]
\* The database before any replica starts: a bold red "H".
InitialText ==
  [k \in Keys |->
     IF k = 1 THEN [char |-> "H", pos |-> Top \div 2, attrs |-> AttrValue]
     ELSE Absent]
\* Quill's starting content: a single "\n".
Newline == [char |-> "\n", attrs |-> NoAttrs]

Min(a, b) == IF a < b THEN a ELSE b
Max(a, b) == IF a > b THEN a ELSE b

\* ------------------------------------------------------ JavaScript arrays

\* Array.prototype.indexOf: the first index holding x, or -1.
indexOf(arr, x) ==
  IF \E i \in 1 .. Len(arr) : arr[i] = x
  THEN (CHOOSE i \in 1 .. Len(arr) :
          arr[i] = x /\ \A j \in 1 .. (i - 1) : arr[j] # x) - 1
  ELSE -1

\* Array.prototype.splice(start, deleteCount, ...items): a negative start
\* counts from the end of the array.
splice(arr, start, deleteCount, items) ==
  LET len == Len(arr)
      s == IF start < 0 THEN Max(len + start, 0) ELSE Min(start, len)
      d == Min(Max(deleteCount, 0), len - s)
  IN SubSeq(arr, 1, s) \o items \o SubSeq(arr, s + d + 1, len)

\* arr[i] of a JavaScript array: undefined outside the array.
at(arr, i, undefined) ==
  IF i >= 0 /\ i < Len(arr) THEN arr[i + 1] ELSE undefined

\* ------------------------------------------------------------ Quill Delta

\* One DeltaOperation.  kind is the field the op carries (insert, delete or
\* retain); text holds an insert's characters (one element for an embed),
\* n a delete's or retain's length, attributes the op's attributes
\* (NoAttrs when the op has none).
Op(kind, text, embed, n, attributes) ==
  [kind |-> kind, text |-> text, embed |-> embed, n |-> n,
   attributes |-> attributes]

\* Delta.retain(length, attributes): a length <= 0 adds nothing.
DeltaRetain(delta, length, attributes) ==
  IF length <= 0 THEN delta
  ELSE Append(delta, Op("retain", <<>>, FALSE, length, attributes))

\* Delta.insert(char, attributes): one content unit.
DeltaInsert(delta, char, attributes) ==
  Append(delta, Op("insert", <<char>>, char = Embed, 0, attributes))

\* Delta.delete(length): a length <= 0 adds nothing.
DeltaDelete(delta, length) ==
  IF length <= 0 THEN delta
  ELSE Append(delta, Op("delete", <<>>, FALSE, length, NoAttrs))

\* op.attributes is truthy: the op names at least one attribute.
HasAttributes(op) == \E a \in AttrNames : op.attributes[a] # Undef

\* The attributes a unit holds after an op's attributes are applied to it:
\* null clears, a value sets, a missing name keeps.
ApplyAttributes(old, attributes) ==
  [a \in AttrNames |->
     IF attributes[a] = Undef THEN old[a]
     ELSE IF attributes[a] = Null THEN Undef
     ELSE attributes[a]]

\* The units an insert op adds.
InsertedUnits(op) ==
  [i \in 1 .. Len(op.text) |->
     [char |-> op.text[i], attrs |-> ApplyAttributes(NoAttrs, op.attributes)]]

\* quill.updateContents(delta): the ops applied left to right at a cursor.
RECURSIVE ApplyOps(_, _, _, _)
ApplyOps(content, delta, i, cursor) ==
  IF i > Len(delta) THEN content
  ELSE
    LET op == delta[i]
        c == Min(cursor, Len(content))
    IN CASE op.kind = "insert" ->
              ApplyOps(splice(content, c, 0, InsertedUnits(op)), delta, i + 1,
                       c + Len(op.text))
         [] op.kind = "delete" ->
              ApplyOps(splice(content, c, op.n, <<>>), delta, i + 1, c)
         [] OTHER ->
              ApplyOps(
                [j \in 1 .. Len(content) |->
                   IF j > c /\ j <= c + op.n
                   THEN [content[j] EXCEPT
                           !.attrs = ApplyAttributes(@, op.attributes)]
                   ELSE content[j]],
                delta, i + 1, c + op.n)

updateContents(content, delta) == ApplyOps(content, delta, 1, 0)

\* Quill emits "text-change" only for a change of length > 0.
DeltaLength(delta) == Len(delta)

\* getQuillAttributes reads delta.ops[0] of quill.getContents(index, 1):
\* outside the content the slice is empty, ops[0] is undefined and reading
\* its attributes throws a TypeError.
getQuillAttributesThrows(content, index) ==
  index < 0 \/ index >= Len(content)

getQuillAttributes(content, index) == content[index + 1].attrs

\* ------------------------------------------------- the query on "text/"

\* The children of a view of "text/".
Children(text) == {k \in Keys : text[k] # Absent}

\* orderByChild("pos"): children without pos first, then by pos, equal
\* values by key.
OrderedBefore(text, a, b) ==
  \/ text[a].pos < text[b].pos
  \/ text[a].pos = text[b].pos /\ a < b

\* previousChildName of child k in a view: the child ordered just before
\* it, or null.
prevChildName(text, k) ==
  LET before == {j \in Children(text) \ {k} : OrderedBefore(text, j, k)}
  IN IF before = {} THEN NoKey
     ELSE CHOOSE j \in before :
            \A h \in before \ {j} : OrderedBefore(text, h, j)

\* snapshot.forEach: the children in query order.
RECURSIVE OrderedChildren(_, _)
OrderedChildren(text, left) ==
  IF left = {} THEN <<>>
  ELSE LET first == CHOOSE j \in left :
                      \A h \in left \ {j} : OrderedBefore(text, j, h)
       IN <<first>> \o OrderedChildren(text, left \ {first})

\* A DataSnapshot of one child.
Child(k, val) == [key |-> k, val |-> val]

\* ----------------------------------------------------- PositionSource

\* posSource.createBetween(before, after): a position never issued before,
\* strictly between the two (0 and Top stand for a missing neighbour), the
\* one nearest the middle.  NoPos when the interval holds no fresh point.
createBetween(issued, before, after) ==
  LET lo == before
      hi == IF after = NoPos THEN Top ELSE after
      free == {p \in (lo + 1) .. (hi - 1) : p \notin issued}
      mid == (lo + hi) \div 2
      dist(p) == IF p >= mid THEN p - mid ELSE mid - p
  IN IF free = {} THEN NoPos
     ELSE CHOOSE p \in free :
            \A q \in free : dist(p) < dist(q) \/ (dist(p) = dist(q) /\ p <= q)

\* ------------------------------------------------------------ the program

VARIABLES
  db,                 \* the database's "text/": key -> child
  pushed,             \* how many keys push() has made
  issued,             \* the positions the PositionSources have issued
  view,               \* per replica: the Firebase client's copy of "text/"
  keys,               \* per replica: the cached keys, in text order
  positions,          \* per replica: the cached positions, in text order
  quill,              \* per replica: the editor's content units
  initialDataLoaded,  \* per replica
  inUpdateQuill,      \* per replica
  inQuillListener,    \* per replica
  pc,                 \* per replica: "await" (the initial get() is pending),
                      \* "running" (the listener is on, the editor enabled)
                      \* or "rejected" (no initial data: startup threw)
  removed,            \* per replica: the keys ever taken out of its cache
  formats,            \* how many format operations the users have made
  call                \* a call of getRelevantDeltaOperations: its argument
                      \* and, once it has returned, its result

vars == <<db, pushed, issued, view, keys, positions, quill, initialDataLoaded,
          inUpdateQuill, inQuillListener, pc, removed, formats, call>>

\* Replica r's program state and the database, as one record the handlers
\* transform; applied and writes collect what one step does to the editor
\* and to the store, full tells that a bound of the model was hit.  faulty
\* names the library call that raises an error in this step ("quill":
\* quill.updateContents, "store": push, update, set or remove; "none" when
\* every call returns), thrown tells that the error has been raised.
World(r) ==
  [keys |-> keys[r], positions |-> positions[r], quill |-> quill[r],
   initialDataLoaded |-> initialDataLoaded[r],
   inUpdateQuill |-> inUpdateQuill[r],
   inQuillListener |-> inQuillListener[r],
   listening |-> pc[r] = "running",
   view |-> view[r], db |-> db, pushed |-> pushed, issued |-> issued,
   applied |-> <<>>, writes |-> <<>>, full |-> FALSE,
   faulty |-> "none", thrown |-> FALSE]

RECURSIVE updateQuill(_, _), textChange(_, _), onChildAdded(_, _, _),
          onChildRemoved(_, _), onChildChanged(_, _), FireEvent(_, _, _, _),
          TranslateOps(_, _, _)

\* quill.updateContents(delta) inside updateQuill: Quill changes its content
\* and calls the "text-change" listener (once it is registered) before it
\* returns.  A call that raises an error leaves the content as it is.
QuillUpdateContents(w, delta) ==
  IF w.faulty = "quill" THEN [w EXCEPT !.thrown = TRUE] ELSE
  LET w1 == [w EXCEPT !.quill = updateContents(@, delta),
                      !.applied = Append(@, delta)]
  IN IF w.listening /\ DeltaLength(delta) > 0 THEN textChange(w1, delta)
     ELSE w1

updateQuill_InListenerToo(w, delta) ==
  LET w1 == QuillUpdateContents([w EXCEPT !.inUpdateQuill = TRUE], delta)
  IN [w1 EXCEPT !.inUpdateQuill = FALSE]

\* updateQuill without its finally: an error leaves inUpdateQuill set.
updateQuill_NoFinally(w, delta) ==
  IF w.inQuillListener THEN w
  ELSE LET w1 == QuillUpdateContents([w EXCEPT !.inUpdateQuill = TRUE], delta)
       IN IF w1.thrown THEN w1 ELSE [w1 EXCEPT !.inUpdateQuill = FALSE]

\* try { quill.updateContents(delta) } finally { inUpdateQuill = false }
updateQuill(w, delta) ==
  IF w.inQuillListener THEN w
  ELSE LET w1 == QuillUpdateContents([w EXCEPT !.inUpdateQuill = TRUE], delta)
       IN [w1 EXCEPT !.inUpdateQuill = FALSE]

\* A child_added the listener returns from at once: initial data, or a
\* child without a char.
addedSkipped_KeepsCharless(w, child) == ~w.initialDataLoaded

addedSkipped(w, child) == ~w.initialDataLoaded \/ child.val.char = Undef

\* The index a new child takes: just after its predecessor.
addedIndex_Append(cached, previousChildName) == Len(cached)

addedIndex_NoOffset(cached, previousChildName) ==
  IF previousChildName = NoKey THEN 0
  ELSE Max(indexOf(cached, previousChildName), 0)

addedIndex(cached, previousChildName) ==
  IF previousChildName = NoKey THEN 0
  ELSE indexOf(cached, previousChildName) + 1

\* A child_added that puts the unit at the end of the editor.
onChildAdded_EditorAtEnd(w, child, previousChildName) ==
  IF addedSkipped(w, child) THEN w
  ELSE
    LET index == addedIndex(w.keys, previousChildName)
        w1 == [w EXCEPT
                 !.keys = splice(@, index, 0, <<child.key>>),
                 !.positions = splice(@, index, 0, <<child.val.pos>>)]
    IN updateQuill(w1, DeltaInsert(DeltaRetain(<<>>, Len(w.keys), NoAttrs),
                                   child.val.char, child.val.attrs))

onChildAdded(w, child, previousChildName) ==
  IF addedSkipped(w, child) THEN w
  ELSE
    LET index == addedIndex(w.keys, previousChildName)
        w1 == [w EXCEPT
                 !.keys = splice(@, index, 0, <<child.key>>),
                 !.positions = splice(@, index, 0, <<child.val.pos>>)]
    IN updateQuill(w1, DeltaInsert(DeltaRetain(<<>>, index, NoAttrs),
                                   child.val.char, child.val.attrs))

\* A child_removed the listener returns from at once: the removed child
\* had no char.
removedSkipped_Never(child) == FALSE

removedSkipped(child) == child.val.char = Undef

\* A child_removed that takes the key out of the cache and leaves the editor.
onChildRemoved_KeepsEditor(w, child) ==
  IF removedSkipped(child) THEN w
  ELSE
    LET index == indexOf(w.keys, child.key)
    IN [w EXCEPT !.keys = splice(@, index, 1, <<>>),
                 !.positions = splice(@, index, 1, <<>>)]

onChildRemoved(w, child) ==
  IF removedSkipped(child) THEN w
  ELSE
    LET index == indexOf(w.keys, child.key)
        w1 == [w EXCEPT !.keys = splice(@, index, 1, <<>>),
                        !.positions = splice(@, index, 1, <<>>)]
    IN updateQuill(w1, DeltaDelete(DeltaRetain(<<>>, index, NoAttrs), 1))

\* attrsWithDeletes: val.attrs, with null for every attribute the editor
\* holds at index and val.attrs does not.
attrsWithDeletes_NoDeletes(attrs, existingAttrs) == attrs

attrsWithDeletes(attrs, existingAttrs) ==
  [a \in AttrNames |->
     IF attrs[a] = Undef /\ existingAttrs[a] # Undef THEN Null ELSE attrs[a]]

\* "If it's newly removed, delete it": the changed child is still cached.
newlyRemoved_Always(index) == TRUE

newlyRemoved(index) == index # -1

onChildChanged(w, child) ==
  LET index == indexOf(w.keys, child.key)
      val == child.val
  IN IF val.char = Undef
     THEN IF newlyRemoved(index)
          THEN LET w1 == [w EXCEPT !.keys = splice(@, index, 1, <<>>),
                                   !.positions = splice(@, index, 1, <<>>)]
               IN updateQuill(w1,
                    DeltaDelete(DeltaRetain(<<>>, index, NoAttrs), 1))
          ELSE w
     ELSE IF getQuillAttributesThrows(w.quill, index) THEN w
     ELSE updateQuill(w,
            DeltaRetain(DeltaRetain(<<>>, index, NoAttrs), 1,
              attrsWithDeletes(val.attrs, getQuillAttributes(w.quill, index))))

\* The Firebase client tells the query's listeners that child k of the
\* replica's view went from old to new.
FireEvent(w, k, old, new) ==
  IF old = new THEN w
  ELSE IF old = Absent
       THEN onChildAdded(w, Child(k, new), prevChildName(w.view, k))
  ELSE IF new = Absent THEN onChildRemoved(w, Child(k, old))
  ELSE onChildChanged(w, Child(k, new))

\* ---------------------------------------------------- local store writes

\* A store mutation as the replica issues it: push, update, set or remove,
\* the keys it targets, and for set/remove the attribute and value.
Write(op, targets, attr, value) ==
  [op |-> op, keys |-> targets, attr |-> attr, value |-> value]

\* push(textRef, value): a new key; the client updates its own view and
\* calls the listeners before push() returns.
push(w, value) ==
  IF w.thrown \/ w.faulty = "store" THEN [w EXCEPT !.thrown = TRUE]
  ELSE IF w.pushed >= MaxKeys THEN [w EXCEPT !.full = TRUE]
  ELSE LET k == w.pushed + 1
           w1 == [w EXCEPT !.db[k] = value, !.view[k] = value, !.pushed = k,
                           !.writes = Append(@, Write("push", <<k>>, Undef,
                                                     value.char))]
       IN FireEvent(w1, k, Absent, value)

RECURSIVE FireRemoved(_, _, _, _)
FireRemoved(w, targets, before, i) ==
  IF i > Len(targets) THEN w
  ELSE IF targets[i] = NoKey THEN FireRemoved(w, targets, before, i + 1)
  ELSE FireRemoved(FireEvent(w, targets[i], before[targets[i]], Absent),
                   targets, before, i + 1)

\* An update() that unsets the targets' char and leaves pos and attrs.
update_CharOnly(w, targets) ==
  IF w.thrown \/ w.faulty = "store" THEN [w EXCEPT !.thrown = TRUE] ELSE
  LET gone == {targets[i] : i \in 1 .. Len(targets)} \ {NoKey}
      w1 == [w EXCEPT
               !.db = [k \in Keys |->
                         IF k \in gone THEN [@[k] EXCEPT !.char = Undef]
                         ELSE @[k]],
               !.view = [k \in Keys |->
                           IF k \in gone THEN [@[k] EXCEPT !.char = Undef]
                           ELSE @[k]],
               !.writes = Append(@, Write("update", targets, Undef, Null))]
  IN FireRemoved(w1, targets, w.view, 1)

\* update(textRef, updateArg) with updateArg[key] = null for every target:
\* one write that deletes those children whole.  A target of undefined
\* (NoKey) names a child that does not exist.
update(w, targets) ==
  IF w.thrown \/ w.faulty = "store" THEN [w EXCEPT !.thrown = TRUE] ELSE
  LET gone == {targets[i] : i \in 1 .. Len(targets)} \ {NoKey}
      w1 == [w EXCEPT
               !.db = [k \in Keys |-> IF k \in gone THEN Absent ELSE @[k]],
               !.view = [k \in Keys |-> IF k \in gone THEN Absent ELSE @[k]],
               !.writes = Append(@, Write("update", targets, Undef, Null))]
  IN FireRemoved(w1, targets, w.view, 1)

\* A format that calls set(attrRef, value) also for a null value.
writeAttr_AlwaysSet(w, k, attr, value) ==
  IF w.thrown \/ w.faulty = "store" THEN [w EXCEPT !.thrown = TRUE] ELSE
  LET w1 == [w EXCEPT !.writes = Append(@, Write("set", <<k>>, attr, value))]
  IN IF k = NoKey THEN w1
     ELSE LET w2 == [w1 EXCEPT !.db[k].attrs[attr] = value,
                               !.view[k].attrs[attr] = value]
          IN FireEvent(w2, k, w.view[k], w2.view[k])

\* set(attrRef, value) or remove(attrRef) on "text/<key>/attrs/<attr>": one
\* field of the child, in the database and in the replica's own view.
writeAttr(w, k, attr, value) ==
  IF w.thrown \/ w.faulty = "store" THEN [w EXCEPT !.thrown = TRUE] ELSE
  LET stored == IF value = Null THEN Undef ELSE value
      w1 == [w EXCEPT !.writes = Append(@,
               Write(IF value = Null THEN "remove" ELSE "set", <<k>>, attr,
                     value))]
  IN IF k = NoKey THEN w1
     ELSE LET w2 == [w1 EXCEPT !.db[k].attrs[attr] = stored,
                               !.view[k].attrs[attr] = stored]
          IN FireEvent(w2, k, w.view[k], w2.view[k])

\* ------------------------------------------------- the text-change listener

\* getRelevantDeltaOperations: each op that is not a bare retain, with the
\* index of its first unit.
\* A normalization in which deletes advance the index too.
RECURSIVE RelevantFrom_DeletesAdvance(_, _, _)
RelevantFrom_DeletesAdvance(delta, i, index) ==
  IF i > Len(delta) THEN <<>>
  ELSE
    LET op == delta[i]
        here == IF op.kind # "retain" \/ HasAttributes(op)
                THEN <<[index |-> index, op |-> op]>> ELSE <<>>
        next == IF op.kind = "insert"
                THEN IF ~op.embed THEN index + Len(op.text) ELSE index + 1
                ELSE index + op.n
    IN here \o RelevantFrom_DeletesAdvance(delta, i + 1, next)

RECURSIVE RelevantFrom(_, _, _)
RelevantFrom(delta, i, index) ==
  IF i > Len(delta) THEN <<>>
  ELSE
    LET op == delta[i]
        here == IF op.kind # "retain" \/ HasAttributes(op)
                THEN <<[index |-> index, op |-> op]>> ELSE <<>>
        next == IF op.kind = "insert"
                THEN IF ~op.embed THEN index + Len(op.text) ELSE index + 1
                ELSE IF op.kind = "retain" THEN index + op.n
                ELSE index
    IN here \o RelevantFrom(delta, i + 1, next)

getRelevantDeltaOperations(delta) == RelevantFrom(delta, 1, 0)

\* The loop over op.insert that calls createBetween: n positions, each above
\* the one before it and below after.
RECURSIVE NewPositions_SameBefore(_, _, _, _)
NewPositions_SameBefore(used, before, after, n) ==
  IF n = 0 THEN <<>>
  ELSE LET newPos == createBetween(used, before, after)
       IN IF newPos = NoPos THEN <<NoPos>>
          ELSE <<newPos>> \o NewPositions_SameBefore(used \cup {newPos},
                                                     before, after, n - 1)

RECURSIVE NewPositions(_, _, _, _)
NewPositions(used, before, after, n) ==
  IF n = 0 THEN <<>>
  ELSE LET newPos == createBetween(used, before, after)
       IN IF newPos = NoPos THEN <<NoPos>>
          ELSE <<newPos>> \o NewPositions(used \cup {newPos}, newPos, after,
                                          n - 1)

RECURSIVE PushEach(_, _, _, _)
PushEach(w, op, newPositions, i) ==
  IF i > Len(op.text) THEN w
  ELSE PushEach(push(w, [pos |-> newPositions[i], char |-> op.text[i],
                         attrs |-> op.attributes]),
                op, newPositions, i + 1)

\* Insertion: a string (every position first, then every push) or an embed.
TranslateInsert(w, index, op) ==
  LET before == at(w.positions, index - 1, NoPos)
      after == at(w.positions, index, NoPos)
      newPositions == NewPositions(w.issued, before, after, Len(op.text))
  IN IF NoPos \in {newPositions[i] : i \in 1 .. Len(newPositions)}
        \/ w.pushed + Len(op.text) > MaxKeys
     THEN [w EXCEPT !.full = TRUE]
     ELSE PushEach(
            [w EXCEPT !.issued = @ \cup {newPositions[i] :
                                           i \in 1 .. Len(newPositions)}],
            op, newPositions, 1)

TranslateDelete_FromStart(w, index, op) ==
  update(w, [i \in 1 .. op.n |-> at(w.keys, i - 1, NoKey)])

\* Deletion: one update() of the keys at [index, index + op.delete).
TranslateDelete(w, index, op) ==
  update(w, [i \in 1 .. op.n |-> at(w.keys, index + i - 1, NoKey)])

AttrOrder == <<"bold", "color">>

\* Formatting: for each unit and each entry of op.attributes, one set() or
\* remove().  The key is read from the cache at the time of the write.
RECURSIVE TranslateFormat(_, _, _, _, _)
TranslateFormat(w, index, op, i, j) ==
  IF i >= op.n THEN w
  ELSE IF j > Len(AttrOrder) THEN TranslateFormat(w, index, op, i + 1, 1)
  ELSE LET attr == AttrOrder[j]
           value == op.attributes[attr]
       IN IF value = Undef THEN TranslateFormat(w, index, op, i, j + 1)
          ELSE TranslateFormat(
                 writeAttr(w, at(w.keys, index + i, NoKey), attr, value),
                 index, op, i, j + 1)

TranslateOp(w, rel) ==
  IF rel.op.kind = "insert" /\ Len(rel.op.text) > 0
  THEN TranslateInsert(w, rel.index, rel.op)
  ELSE IF rel.op.kind = "delete" /\ rel.op.n > 0
  THEN TranslateDelete(w, rel.index, rel.op)
  ELSE IF rel.op.kind = "retain" /\ HasAttributes(rel.op) /\ rel.op.n > 0
  THEN TranslateFormat(w, rel.index, rel.op, 0, 1)
  ELSE w

TranslateOps(w, ops, i) ==
  IF i > Len(ops) \/ w.thrown THEN w
  ELSE TranslateOps(TranslateOp(w, ops[i]), ops, i + 1)

textChange_InUpdateToo(w, delta) ==
  LET w1 == TranslateOps([w EXCEPT !.inQuillListener = TRUE],
                         getRelevantDeltaOperations(delta), 1)
  IN [w1 EXCEPT !.inQuillListener = FALSE]

\* quill.on("text-change", ...)
textChange(w, delta) ==
  IF w.inUpdateQuill THEN w
  ELSE LET w1 == TranslateOps([w EXCEPT !.inQuillListener = TRUE],
                              getRelevantDeltaOperations(delta), 1)
       IN [w1 EXCEPT !.inQuillListener = FALSE]

\* ------------------------------------------------------------- the steps

\* What one step leaves in the variables: replica r's program state and the
\* database.  A step that hits a bound of the model is not taken.
Commit(r, w) ==
  /\ ~w.full
  /\ db' = w.db
  /\ pushed' = w.pushed
  /\ issued' = w.issued
  /\ view' = [view EXCEPT ![r] = w.view]
  /\ keys' = [keys EXCEPT ![r] = w.keys]
  /\ positions' = [positions EXCEPT ![r] = w.positions]
  /\ quill' = [quill EXCEPT ![r] = w.quill]
  /\ initialDataLoaded' = [initialDataLoaded EXCEPT ![r] = w.initialDataLoaded]
  /\ inUpdateQuill' = [inUpdateQuill EXCEPT ![r] = w.inUpdateQuill]
  /\ inQuillListener' = [inQuillListener EXCEPT ![r] = w.inQuillListener]
  /\ removed' = [removed EXCEPT ![r] =
                   @ \cup ({keys[r][i] : i \in 1 .. Len(keys[r])}
                           \ {w.keys[i] : i \in 1 .. Len(w.keys)})]
  /\ call' = call

\* The server tells replica r of child k's current value: the client brings
\* its view of k up to date and calls the listener the change asks for
\* (child_added, child_removed or child_changed).  A replica hears of each
\* child's changes in order, of different children in any order, and may
\* miss the values in between.
Pending(r, k) == view[r][k] # db[k]

Delivered(r, k) ==
  FireEvent([World(r) EXCEPT !.view[k] = db[k]], k, view[r][k], db[k])

Notify(r, k) ==
  /\ Pending(r, k)
  /\ Commit(r, Delivered(r, k))
  /\ UNCHANGED <<pc, formats>>

\* The children of a snapshot that have a char, in query order.
RECURSIVE WithChar(_, _)
WithChar(text, ordered) ==
  IF ordered = <<>> THEN <<>>
  ELSE (IF text[Head(ordered)].char = Undef THEN <<>> ELSE <<Head(ordered)>>)
       \o WithChar(text, Tail(ordered))

\* "Load initial state and sync it to Quill", run on the snapshot initial.
initialLoad(w, initial) ==
  LET loaded == WithChar(initial, OrderedChildren(initial, Children(initial)))
      w1 == [w EXCEPT
               !.keys = @ \o loaded,
               !.positions = @ \o [i \in 1 .. Len(loaded) |->
                                     initial[loaded[i]].pos]]
      initialOps == [i \in 1 .. Len(loaded) |->
                       Op("insert", <<initial[loaded[i]].char>>,
                          initial[loaded[i]].char = Embed, 0,
                          initial[loaded[i]].attrs)]
      w2 == updateQuill(w1, initialOps)
      w3 == updateQuill(w2,
              DeltaDelete(DeltaRetain(<<>>, Len(w2.positions), NoAttrs), 1))
  IN [w3 EXCEPT !.initialDataLoaded = TRUE]

\* get(textQuery) resolves with a snapshot that exists: the client's view
\* of "text/", which every notification so far has brought up to date.
InitialLoad(r) ==
  /\ pc[r] = "await"
  /\ Children(view[r]) # {}
  /\ Commit(r, initialLoad(World(r), view[r]))
  /\ pc' = [pc EXCEPT ![r] = "running"]
  /\ formats' = formats

\* get(textQuery) resolves with a snapshot that does not exist: the promise
\* is rejected with "No initial data" and the startup function throws.
NoInitialData(r) ==
  /\ pc[r] = "await"
  /\ Children(view[r]) = {}
  /\ pc' = [pc EXCEPT ![r] = "rejected"]
  /\ UNCHANGED <<db, pushed, issued, view, keys, positions, quill,
                 initialDataLoaded, inUpdateQuill, inQuillListener, removed,
                 formats, call>>

\* The string of n characters a user types or pastes in one operation.
InsertText(n) == [i \in 1 .. n |-> IF i % 2 = 1 THEN "x" ELSE "y"]

Bold == [NoAttrs EXCEPT !["bold"] = AttrValue["bold"]]

\* The attributes a user's format operation carries: take the colour off,
\* make bold and red, or "remove formatting" (every attribute null).
FormatChoices ==
  {[NoAttrs EXCEPT !["color"] = Null], AttrValue, [a \in AttrNames |-> Null]}

\* The changes a user can make to an editor holding content that add
\* units: type a string (one plain character, or a longer bold string) or an
\* embed at i, or replace a unit by a typed one (an insert followed by a
\* delete).
InsertDeltas(content) ==
  LET len == Len(content)
  IN {Append(DeltaRetain(<<>>, i, NoAttrs),
             Op("insert", InsertText(n), FALSE, 0,
                IF n = 1 THEN NoAttrs ELSE Bold)) :
        i \in 0 .. len, n \in 1 .. MaxInsert}
     \cup {DeltaInsert(DeltaRetain(<<>>, i, NoAttrs), Embed, NoAttrs) :
             i \in 0 .. len}
     \cup {DeltaDelete(Append(DeltaRetain(<<>>, i, NoAttrs),
                              Op("insert", InsertText(1), FALSE, 0, NoAttrs)),
                       1) :
             i \in 0 .. (len - 1)}

\* The changes that delete a run.
DeleteDeltas(content) ==
  LET len == Len(content)
      runs == {<<i, n>> \in (0 .. len) \X (1 .. MaxRun) : i + n <= len}
  IN {DeltaDelete(DeltaRetain(<<>>, run[1], NoAttrs), run[2]) : run \in runs}

\* The changes that format a run.
FormatDeltas(content) ==
  LET len == Len(content)
      runs == {<<i, n>> \in (0 .. len) \X (1 .. MaxRun) : i + n <= len}
  IN {DeltaRetain(DeltaRetain(<<>>, run[1], NoAttrs), run[2], attrs) :
        run \in runs, attrs \in FormatChoices}

\* The user edits the enabled editor: Quill changes its content and calls
\* the "text-change" listener with the change.
Edited(r, delta) ==
  textChange([World(r) EXCEPT !.quill = updateContents(@, delta)], delta)

UserChange(r, delta) == Commit(r, Edited(r, delta))

\* The model's runs type first and format afterwards: no insert follows a
\* format operation, no insert takes the keys beyond MaxTyped, and no format
\* operation is made once MaxTyped keys exist.
LocalInsert(r) ==
  /\ pc[r] = "running"
  /\ formats = 0
  /\ \E delta \in InsertDeltas(quill[r]) :
       Edited(r, delta).pushed <= MaxTyped /\ UserChange(r, delta)
  /\ UNCHANGED <<pc, formats>>

LocalDelete(r) ==
  /\ pc[r] = "running"
  /\ \E delta \in DeleteDeltas(quill[r]) : UserChange(r, delta)
  /\ UNCHANGED <<pc, formats>>

LocalFormat(r) ==
  /\ pc[r] = "running"
  /\ formats < MaxFormats
  /\ pushed < MaxTyped
  /\ \E delta \in FormatDeltas(quill[r]) : UserChange(r, delta)
  /\ formats' = formats + 1
  /\ pc' = pc

\* No call of getRelevantDeltaOperations under way.
NoCall == [delta |-> <<>>, done |-> FALSE, relevantOps |-> <<>>]

\* The state after construction, for the set of replicas that run.
Start(running) ==
  /\ db = InitialText
  /\ pushed = Cardinality(Children(InitialText))
  /\ issued = {InitialText[k].pos : k \in Children(InitialText)}
  /\ view = [r \in running |-> InitialText]
  /\ keys = [r \in running |-> <<>>]
  /\ positions = [r \in running |-> <<>>]
  /\ quill = [r \in running |-> <<Newline>>]
  /\ initialDataLoaded = [r \in running |-> FALSE]
  /\ inUpdateQuill = [r \in running |-> FALSE]
  /\ inQuillListener = [r \in running |-> FALSE]
  /\ pc = [r \in running |-> "await"]
  /\ removed = [r \in running |-> {}]
  /\ formats = 0

\* The replicas that run.
Clients == DOMAIN pc

Init == Start(Replicas) /\ call = NoCall

Next ==
  \/ \E r \in Clients, k \in Keys : Notify(r, k)
  \/ \E r \in Clients : InitialLoad(r)
  \/ \E r \in Clients : NoInitialData(r)
  \/ \E r \in Replicas : LocalInsert(r)
  \/ \E r \in Replicas : LocalDelete(r)
  \/ \E r \in Replicas : LocalFormat(r)

Spec == Init /\ [][Next]_vars

\* Two replicas that delete and format the initial text, and a third that
\* only displays it.
InitWithReader == Start(Replicas \cup Readers) /\ call = NoCall

NextWithReader ==
  \/ \E r \in Clients, k \in Keys : Notify(r, k)
  \/ \E r \in Clients : InitialLoad(r)
  \/ \E r \in Clients : NoInitialData(r)
  \/ \E r \in Replicas : LocalDelete(r)
  \/ \E r \in Replicas : LocalFormat(r)

SpecWithReader == InitWithReader /\ [][NextWithReader]_vars

\* A notification during which quill.updateContents raises an error: the
\* listener has changed the cache, the editor is as it was.
DeliveredThrowing(r, k) ==
  FireEvent([World(r) EXCEPT !.view[k] = db[k], !.faulty = "quill"],
            k, view[r][k], db[k])

NotifyThrows(r, k) ==
  /\ Pending(r, k)
  /\ DeliveredThrowing(r, k).thrown
  /\ Commit(r, DeliveredThrowing(r, k))
  /\ UNCHANGED <<pc, formats>>

\* A user's change during whose translation the store raises an error:
\* Quill has changed its content, the listener stops at the failing write.
EditedThrowing(r, delta) ==
  textChange([World(r) EXCEPT !.quill = updateContents(@, delta),
                              !.faulty = "store"], delta)

LocalEditThrows(r) ==
  /\ pc[r] = "running"
  /\ \E delta \in DeleteDeltas(quill[r]) \cup FormatDeltas(quill[r]) :
       /\ EditedThrowing(r, delta).thrown
       /\ Commit(r, EditedThrowing(r, delta))
  /\ UNCHANGED <<pc, formats>>

\* The replicas of Spec, with library calls that may raise errors.
InitWithErrors == Start(Replicas) /\ call = NoCall

NextWithErrors ==
  \/ \E r \in Clients, k \in Keys : Notify(r, k)
  \/ \E r \in Clients : InitialLoad(r)
  \/ \E r \in Clients : NoInitialData(r)
  \/ \E r \in Replicas : LocalDelete(r)
  \/ \E r \in Replicas : LocalFormat(r)
  \/ \E r \in Clients, k \in Keys : NotifyThrows(r, k)
  \/ \E r \in Replicas : LocalEditThrows(r)

SpecWithErrors == InitWithErrors /\ [][NextWithErrors]_vars

\* The operations a change handed to getRelevantDeltaOperations is made
\* of: retains with and without attributes, inserts of a string or an
\* embed, deletes.
DeltaOps ==
  {Op("retain", <<>>, FALSE, n, attrs) :
     n \in 1 .. MaxRun, attrs \in {NoAttrs, Bold}}
  \cup {Op("insert", InsertText(n), FALSE, 0, NoAttrs) : n \in 1 .. MaxInsert}
  \cup {Op("insert", <<Embed>>, TRUE, 0, Bold)}
  \cup {Op("delete", <<>>, FALSE, n, NoAttrs) : n \in 1 .. MaxRun}

\* The changes of at most MaxOps operations.
DeltaInputs ==
  UNION {[1 .. len -> DeltaOps] : len \in 0 .. MaxOps}

\* getRelevantDeltaOperations is called with a change and returns.
Normalize ==
  /\ ~call.done
  /\ call' = [call EXCEPT !.done = TRUE,
                          !.relevantOps = getRelevantDeltaOperations(call.delta)]
  /\ UNCHANGED <<db, pushed, issued, view, keys, positions, quill,
                 initialDataLoaded, inUpdateQuill, inQuillListener, pc,
                 removed, formats>>

\* getRelevantDeltaOperations on its own, for every bounded change.
InitNormalize ==
  /\ Start(Replicas)
  /\ \E delta \in DeltaInputs : call = [NoCall EXCEPT !.delta = delta]

NextNormalize == Normalize

SpecNormalize == InitNormalize /\ [][NextNormalize]_vars

\* ------------------------------------------------------------ the claims

\* The keys of a view that have a char, in query order: what the cache of a
\* replica holding that view should list.
LiveKeys(text) == WithChar(text, OrderedChildren(text, Children(text)))

Range(arr) == {arr[i] : i \in 1 .. Len(arr)}

\* The notification pending for replica r on child k, by the listener the
\* client calls for it.
PendingAdded(r, k) == Pending(r, k) /\ view[r][k] = Absent
PendingRemoved(r, k) == Pending(r, k) /\ db[k] = Absent
PendingChanged(r, k) ==
  Pending(r, k) /\ view[r][k] # Absent /\ db[k] # Absent

\* A handler's result leaves the cache and the editor as they are and hands
\* the editor no operation.
Untouched(r, w) ==
  /\ w.keys = keys[r]
  /\ w.positions = positions[r]
  /\ w.quill = quill[r]
  /\ w.applied = <<>>

\* C1: two replicas that have finished their initial load and hold the same
\* view of the store (they have observed the same entries, each in its own
\* order of notifications) have identical cached keys and positions.
C1_Convergence ==
  \A r1 \in Clients, r2 \in Clients :
    (initialDataLoaded[r1] /\ initialDataLoaded[r2] /\ view[r1] = view[r2])
      => (keys[r1] = keys[r2] /\ positions[r1] = positions[r2])

\* Both replicas are loaded and up to date with a database that has seen
\* every key pushed and one deleted, and still holds two units.
C1_Witness ==
  /\ \A r \in Clients : initialDataLoaded[r] /\ view[r] = db
  /\ pushed = MaxTyped
  /\ \A r \in Clients : removed[r] # {} /\ Len(keys[r]) >= 2

\* C2: in every reachable state, for every replica, positions and keys have
\* the same length and positions is strictly ascending.
C2_CacheSorted ==
  \A r \in Clients :
    /\ Len(positions[r]) = Len(keys[r])
    /\ \A i \in 1 .. (Len(positions[r]) - 1) :
         positions[r][i] < positions[r][i + 1]

\* Both replicas loaded, each with a cache of three units.
C2_Witness ==
  \A r \in Clients : initialDataLoaded[r] /\ Len(positions[r]) >= 3

\* C3: once a replica has finished its initial load, its cached keys are
\* exactly the children of its view that have a char, in ascending position
\* order, and its cached positions are theirs.
C3_CacheMirrorsView ==
  \A r \in Clients :
    initialDataLoaded[r] =>
      /\ keys[r] = LiveKeys(view[r])
      /\ positions[r] = [i \in 1 .. Len(keys[r]) |-> view[r][keys[r][i]].pos]

\* A loaded replica whose view holds a child without a char (attrs written
\* to a deleted key) beside a child with one.
C3_Witness ==
  \E r \in Clients :
    /\ initialDataLoaded[r]
    /\ keys[r] # <<>>
    /\ \E k \in Children(view[r]) : view[r][k].char = Undef

\* C4: a key once taken out of a replica's cache is never in it again, and a
\* changed child without a char that the cache does not hold changes neither
\* cache nor editor.
C4_NoResurrection ==
  \A r \in Clients :
    /\ removed[r] \cap Range(keys[r]) = {}
    /\ \A k \in Keys :
         (PendingChanged(r, k) /\ db[k].char = Undef
          /\ k \notin Range(keys[r]))
           => Untouched(r, Delivered(r, k))

\* A replica that deleted a unit, saw the attrs another replica then wrote
\* to the key, and has a further change of those attrs pending, while it
\* still caches another unit.
C4_Witness ==
  \E r \in Clients : \E k \in removed[r] :
    /\ PendingChanged(r, k)
    /\ db[k].char = Undef
    /\ keys[r] # <<>>

\* C5: a notification delivered before the initial load has completed
\* changes neither cache nor editor.
C5_SuppressedBeforeLoad ==
  \A r \in Clients : \A k \in Keys :
    (~initialDataLoaded[r] /\ Pending(r, k)) => Untouched(r, Delivered(r, k))

\* C6: a notification that takes a cached key's char away (child_removed,
\* or child_changed without a char) hands the editor exactly one delete, at
\* the key's index, and takes exactly that key out of the cache; any later
\* notification about a key already taken out does nothing.
C6_RemoveOnce ==
  \A r \in Clients : \A k \in Keys :
    (Pending(r, k) /\ db[k].char = Undef) =>
      LET index == indexOf(keys[r], k)
          w == Delivered(r, k)
      IN IF k \in Range(keys[r])
         THEN /\ w.applied =
                   <<DeltaDelete(DeltaRetain(<<>>, index, NoAttrs), 1)>>
              /\ w.keys = splice(keys[r], index, 1, <<>>)
              /\ w.positions = splice(positions[r], index, 1, <<>>)
              /\ w.quill = splice(quill[r], index, 1, <<>>)
         ELSE k \in removed[r] => Untouched(r, w)

\* The reader saw the key's char go by a child_changed (another replica's
\* attrs on the deleted key), and now the child_removed of what was left of
\* it is pending.
C6_Witness ==
  \E r \in Readers : \E k \in removed[r] :
    /\ PendingRemoved(r, k)
    /\ view[r][k].char = Undef

\* C7: a child_removed for a key the cache does not hold leaves the cache as
\* it is and hands the editor no operation.
C7_RemoveUntrackedIsNoOp ==
  \A r \in Clients : \A k \in Keys :
    (PendingRemoved(r, k) /\ k \notin Range(keys[r]))
      => Untouched(r, Delivered(r, k))

\* C8: a child_changed with a char, for a cached key, leaves the editor unit
\* at the key's index with exactly the notification's attrs, and every other
\* unit as it was.
C8_AttributesSetExactly ==
  \A r \in Clients : \A k \in Keys :
    (initialDataLoaded[r] /\ PendingChanged(r, k) /\ db[k].char # Undef
     /\ k \in Range(keys[r]))
      => LET index == indexOf(keys[r], k)
         IN Delivered(r, k).quill =
              [quill[r] EXCEPT ![index + 1].attrs = db[k].attrs]

\* The editor holds a bold red unit and the pending child_changed carries
\* bold alone.
C8_Witness ==
  \E r \in Clients : \E k \in Range(keys[r]) :
    /\ initialDataLoaded[r]
    /\ PendingChanged(r, k)
    /\ db[k].char # Undef
    /\ quill[r][indexOf(keys[r], k) + 1].attrs = AttrValue
    /\ db[k].attrs = [AttrValue EXCEPT !["color"] = Undef]

\* C9: handling a notification, or the initial load, issues no store
\* mutation: the database and the key and position counters stay as they are.
C9_NoWriteFromIngest ==
  \A r \in Clients :
    /\ \A k \in Keys :
         Pending(r, k) =>
           LET w == Delivered(r, k)
           IN w.writes = <<>> /\ w.db = db /\ w.pushed = pushed
              /\ w.issued = issued
    /\ (pc[r] = "await" /\ Children(view[r]) # {}) =>
         LET w == initialLoad(World(r), view[r])
         IN w.writes = <<>> /\ w.db = db /\ w.pushed = pushed
            /\ w.issued = issued

\* A replica whose listener is registered has a notification pending that
\* inserts a unit into the editor.
C9_Witness ==
  \E r \in Clients : \E k \in Keys :
    /\ pc[r] = "running"
    /\ PendingAdded(r, k)
    /\ Len(Delivered(r, k).quill) = Len(quill[r]) + 1

\* The changes a user can make to the editor of replica r.
AllDeltas(r) ==
  InsertDeltas(quill[r]) \cup DeleteDeltas(quill[r]) \cup FormatDeltas(quill[r])

\* C10: after a local change and the notifications of its own writes, the
\* editor holds what Quill made of the change (no operation is applied to it
\* a second time), and the cache has followed: it lists the view's children
\* that have a char, as many as the editor holds units.
C10_NoReplayIntoEditor ==
  \A r \in Clients :
    pc[r] = "running" =>
      \A delta \in AllDeltas(r) :
        LET w == Edited(r, delta)
        IN ~w.full =>
             /\ w.applied = <<>>
             /\ w.quill = updateContents(quill[r], delta)
             /\ w.keys = LiveKeys(w.view)
             /\ Len(w.quill) = Len(w.keys)

\* A replica has typed two units the other replica has not heard of yet,
\* and can delete or format them.
C10_Witness ==
  \E r \in Clients :
    /\ pc[r] = "running"
    /\ Len(quill[r]) = 3
    /\ \E k1 \in Range(keys[r]), k2 \in Range(keys[r]) :
         k1 # k2 /\ \A o \in Clients \ {r} :
                      view[o][k1] = Absent /\ view[o][k2] = Absent
    /\ \E delta \in DeleteDeltas(quill[r]) : Len(Edited(r, delta).keys) = 1

\* C11: whenever a handler has returned, both reentrancy flags are false,
\* also after a pass in which quill.updateContents or a store write raised an
\* error; so the next notification reaches the editor and the next change
\* of the user is translated.
C11_FlagsReset ==
  \A r \in Clients : ~inUpdateQuill[r] /\ ~inQuillListener[r]

\* A loaded replica whose editor and cache are out of step after a failed
\* pass, with a further notification to handle.
C11_Witness ==
  \E r \in Clients :
    /\ initialDataLoaded[r]
    /\ Len(quill[r]) # Len(keys[r])
    /\ \E k \in Keys : Pending(r, k)

\* The changes of a user that only insert: a string or an embed at an index.
PureInserts(r) ==
  {delta \in InsertDeltas(quill[r]) : delta[Len(delta)].kind = "insert"}

\* The index a pure insert applies at.
InsertIndex(delta) == IF Len(delta) = 1 THEN 0 ELSE delta[1].n

\* C12: after a local insert of N units at index and the notifications of
\* its N pushes (each handled before the next push), the N new keys are at
\* cache indices [index, index + N) in the order of the inserted text, the
\* rest of the cache is as it was, and the cached positions are strictly
\* ascending, so the new ones lie strictly between the former neighbours.
C12_InsertKeepsOrder ==
  \A r \in Clients :
    pc[r] = "running" =>
      \A delta \in PureInserts(r) :
        LET w == Edited(r, delta)
            index == InsertIndex(delta)
            text == delta[Len(delta)].text
            N == Len(text)
            new == [j \in 1 .. N |-> pushed + j]
        IN ~w.full =>
             /\ w.keys = splice(keys[r], index, 0, new)
             /\ \A j \in 1 .. N :
                  /\ w.db[new[j]].char = text[j]
                  /\ w.positions[index + j] = w.db[new[j]].pos
             /\ \A i \in 1 .. Len(keys[r]) :
                  w.positions[IF i <= index THEN i ELSE i + N] =
                    positions[r][i]
             /\ \A i \in 1 .. (Len(w.positions) - 1) :
                  w.positions[i] < w.positions[i + 1]

\* A replica caching two units whose user types a string of two characters
\* between them.
C12_Witness ==
  \E r \in Clients :
    /\ pc[r] = "running"
    /\ Len(keys[r]) = 2
    /\ \E delta \in PureInserts(r) :
         /\ InsertIndex(delta) = 1
         /\ Len(delta[Len(delta)].text) = 2
         /\ ~Edited(r, delta).full

\* The index a delete or format of one run applies at, and the run's length.
RunIndex(delta) == IF Len(delta) = 1 THEN 0 ELSE delta[1].n
RunLength(delta) == delta[Len(delta)].n

\* C13: a local delete of N units at index issues one store mutation, an
\* update() whose targets are the N keys cached at [index, index + N), and
\* after it and its notifications exactly those keys are gone from the
\* cache.
C13_DeleteTargetsRun ==
  \A r \in Clients :
    pc[r] = "running" =>
      \A delta \in DeleteDeltas(quill[r]) :
        LET w == Edited(r, delta)
            index == RunIndex(delta)
            N == RunLength(delta)
        IN /\ w.writes =
                <<Write("update", SubSeq(keys[r], index + 1, index + N),
                        Undef, Null)>>
           /\ w.keys = splice(keys[r], index, N, <<>>)
           /\ w.positions = splice(positions[r], index, N, <<>>)

\* A replica caching three units whose user deletes the last two.
C13_Witness ==
  \E r \in Clients :
    /\ pc[r] = "running"
    /\ Len(keys[r]) = 3
    /\ \E delta \in DeleteDeltas(quill[r]) :
         RunIndex(delta) = 1 /\ RunLength(delta) = 2

\* The keys a local delete targets: those cached at [index, index + N).
DeleteTargets(r, delta) ==
  Range(SubSeq(keys[r], RunIndex(delta) + 1,
               RunIndex(delta) + RunLength(delta)))

\* C14 as stated: the store mutation of a local delete unsets the char of
\* each targeted entry and leaves its pos and attrs in the store as they
\* were.
C14_DeleteKeepsPosAndAttrs ==
  \A r \in Clients :
    pc[r] = "running" =>
      \A delta \in DeleteDeltas(quill[r]) :
        \A k \in DeleteTargets(r, delta) :
          LET w == Edited(r, delta)
          IN /\ w.db[k].char = Undef
             /\ w.db[k].pos = db[k].pos
             /\ w.db[k].attrs = db[k].attrs

\* C14 amended: the store mutation of a local delete removes each targeted
\* entry whole (char, pos and attrs are all absent from the store
\* afterwards) and changes no other entry.
C14_DeleteRemovesEntry ==
  \A r \in Clients :
    pc[r] = "running" =>
      \A delta \in DeleteDeltas(quill[r]) :
        LET w == Edited(r, delta)
        IN \A k \in Keys :
             w.db[k] = IF k \in DeleteTargets(r, delta) THEN Absent ELSE db[k]

\* A user can delete a unit whose entry in the store holds a position and
\* attributes, beside a unit the delete does not target.
C14_Witness ==
  \E r \in Clients :
    /\ pc[r] = "running"
    /\ \E delta \in DeleteDeltas(quill[r]) :
         /\ \E k \in DeleteTargets(r, delta) :
              db[k].pos # NoPos /\ db[k].attrs # NoAttrs
         /\ \E k \in Range(keys[r]) \ DeleteTargets(r, delta) :
              db[k] # Absent

\* C15: once the initial get() has come back empty and startup has failed,
\* no notification changes the replica's cache or editor or makes it write
\* to the store.
C15_NoSyncAfterReject ==
  \A r \in Clients : \A k \in Keys :
    (pc[r] = "rejected" /\ Pending(r, k)) =>
      /\ Untouched(r, Delivered(r, k))
      /\ Delivered(r, k).writes = <<>>

\* The attribute map of a format change, and the names it carries.
FormatMap(delta) == delta[Len(delta)].attributes
FormatNames(delta) == {a \in AttrNames : FormatMap(delta)[a] # Undef}

\* C16: a local format of N units at index with attribute map A issues, for
\* each key cached at [index, index + N) and each pair of A, exactly one
\* write to that key's attribute: remove() for null, set() otherwise, and
\* nothing else; in the store the targeted entries change in those
\* attributes only and no other entry changes.
C16_FormatWritesPerAttribute ==
  \A r \in Clients :
    pc[r] = "running" =>
      \A delta \in FormatDeltas(quill[r]) :
        LET w == Edited(r, delta)
            index == RunIndex(delta)
            N == RunLength(delta)
            A == FormatMap(delta)
            targets == Range(SubSeq(keys[r], index + 1, index + N))
        IN /\ Len(w.writes) = N * Cardinality(FormatNames(delta))
           /\ \A k \in targets : \A a \in FormatNames(delta) :
                Write(IF A[a] = Null THEN "remove" ELSE "set", <<k>>, a, A[a])
                  \in Range(w.writes)
           /\ \A k \in Keys :
                /\ w.db[k].char = db[k].char
                /\ w.db[k].pos = db[k].pos
                /\ w.db[k].attrs =
                     IF k \in targets
                     THEN [a \in AttrNames |->
                             IF A[a] = Undef THEN db[k].attrs[a]
                             ELSE IF A[a] = Null THEN Undef ELSE A[a]]
                     ELSE db[k].attrs

\* A replica caching three units whose user formats the last two.
C16_Witness ==
  \E r \in Clients :
    /\ pc[r] = "running"
    /\ Len(keys[r]) = 3
    /\ \E delta \in FormatDeltas(quill[r]) :
         /\ RunIndex(delta) = 1 /\ RunLength(delta) = 2
         /\ \E a \in FormatNames(delta) : FormatMap(delta)[a] = Null

\* The length by which an operation moves the index on: an insert by its
\* string's length (1 for an embed), a retain by its length, a delete by 0.
Advance(op) ==
  IF op.kind = "insert" THEN (IF op.embed THEN 1 ELSE Len(op.text))
  ELSE IF op.kind = "retain" THEN op.n
  ELSE 0

RECURSIVE AdvanceBefore(_, _)
AdvanceBefore(delta, i) ==
  IF i <= 1 THEN 0 ELSE AdvanceBefore(delta, i - 1) + Advance(delta[i - 1])

\* C17: the normalized list holds, in order, every insert, every delete and
\* every retain with attributes of the change and no retain without; each
\* entry's index is the sum of the lengths of the inserts and retains
\* before its operation.
C17_Normalization ==
  call.done =>
    LET delta == call.delta
        kept == {i \in 1 .. Len(delta) :
                   delta[i].kind # "retain" \/ HasAttributes(delta[i])}
        nth(j) == CHOOSE i \in kept : Cardinality({h \in kept : h < i}) = j - 1
    IN /\ Len(call.relevantOps) = Cardinality(kept)
       /\ \A j \in 1 .. Len(call.relevantOps) :
            /\ call.relevantOps[j].op = delta[nth(j)]
            /\ call.relevantOps[j].index = AdvanceBefore(delta, nth(j))

\* The change "insert two characters, delete two units, make the next
\* bold" has been normalized: three entries, the last two at index 2.
C17_Witness ==
  /\ call.done
  /\ Len(call.delta) = 3
  /\ call.delta[1].kind = "insert" /\ Len(call.delta[1].text) = 2
  /\ call.delta[2].kind = "delete" /\ call.delta[2].n = 2
  /\ call.delta[3].kind = "retain" /\ HasAttributes(call.delta[3])
  /\ Len(call.relevantOps) = 3
  /\ call.relevantOps[3].index = 2

\* The child ordered just before the added child k in replica r's view once
\* the view holds k.
Predecessor(r, k) == prevChildName([view[r] EXCEPT ![k] = db[k]], k)

\* C18: a child_added without a char changes neither cache nor editor; a
\* child_added with a char, after the initial load, puts the key and its
\* position into the cache just after the predecessor the store reports
\* (at index 0 when there is none, or when the cache does not hold it) and
\* hands the editor one insert of the unit at that index.
C18_AddSkipsOrInserts ==
  \A r \in Clients : \A k \in Keys :
    PendingAdded(r, k) =>
      LET w == Delivered(r, k)
          prev == Predecessor(r, k)
          index == IF prev \in Range(keys[r])
                   THEN indexOf(keys[r], prev) + 1 ELSE 0
          unit == [char |-> db[k].char,
                   attrs |-> ApplyAttributes(NoAttrs, db[k].attrs)]
      IN IF db[k].char = Undef THEN Untouched(r, w)
         ELSE initialDataLoaded[r] =>
                /\ w.keys = splice(keys[r], index, 0, <<k>>)
                /\ w.positions = splice(positions[r], index, 0, <<db[k].pos>>)
                /\ w.applied = <<DeltaInsert(DeltaRetain(<<>>, index, NoAttrs),
                                             db[k].char, db[k].attrs)>>
                /\ w.quill = splice(quill[r], index, 0, <<unit>>)

\* A loaded replica with the child_added pending of a child with a char,
\* whose predecessor it caches before another unit.
C18_Witness ==
  \E r \in Clients : \E k \in Keys :
    /\ initialDataLoaded[r]
    /\ PendingAdded(r, k) /\ db[k].char # Undef
    /\ Predecessor(r, k) \in Range(keys[r])
    /\ indexOf(keys[r], Predecessor(r, k)) + 1 < Len(keys[r])

\* C19: in every state a replica is in between handlers after its initial
\* load, the editor holds as many units as the cache holds keys, and the
\* unit at offset i is the char of the entry of keys[i].
C19_EditorMatchesCache ==
  \A r \in Clients :
    initialDataLoaded[r] =>
      /\ Len(quill[r]) = Len(keys[r])
      /\ \A i \in 1 .. Len(keys[r]) :
           quill[r][i].char = view[r][keys[r][i]].char

\* Both replicas are loaded and up to date after the users have typed and
\* formatted, each showing two units.
C19_Witness ==
  /\ formats > 0
  /\ \A r \in Clients :
       initialDataLoaded[r] /\ view[r] = db /\ Len(quill[r]) = 2

\* The keys the store mutations of a step target.
WriteTargets(w) == UNION {Range(w.writes[i].keys) : i \in 1 .. Len(w.writes)}

\* C20: a child_removed or child_changed that the listener goes on to
\* handle finds its key in the cache (index from 0 to length - 1, never
\* -1) and takes exactly one key out or none; a child_added is put at an
\* index from 0 to the cache's length; and every store mutation of a local
\* delete or format targets a key the cache holds.
C20_IndicesValid ==
  \A r \in Clients :
    /\ \A k \in Keys :
         LET index == indexOf(keys[r], k)
             w == Delivered(r, k)
         IN /\ (PendingRemoved(r, k) /\ ~removedSkipped(Child(k, view[r][k])))
                 => /\ index \in 0 .. (Len(keys[r]) - 1)
                    /\ Len(w.keys) = Len(keys[r]) - 1
            /\ (PendingChanged(r, k) /\ db[k].char # Undef)
                 => index \in 0 .. (Len(keys[r]) - 1)
            /\ (PendingAdded(r, k) /\ ~addedSkipped(World(r), Child(k, db[k])))
                 => addedIndex(keys[r], Predecessor(r, k))
                      \in 0 .. Len(keys[r])
    /\ pc[r] = "running" =>
         \A delta \in DeleteDeltas(quill[r]) \cup FormatDeltas(quill[r]) :
           WriteTargets(Edited(r, delta)) \subseteq Range(keys[r])

====
